---- MODULE Spec2Model ----
(***************************************************************************)
(* A model of tools/ZydisPE.c: the PE loader (main), the symbol-table      *)
(* construction (ZydisPEContextInit), the address lookup                    *)
(* (ZydisFormatterPrintAddress), the disassembly driver                     *)
(* (DisassembleMappedPEFile) and the RVA helpers (GetSectionByRVA,          *)
(* RVAToFileOffset).                                                        *)
(***************************************************************************)
EXTENDS Integers, Sequences, FiniteSets, TLC

(***************************************************************************)
(* Bounds of the model.                                                    *)
(***************************************************************************)
\* Largest NumberOfFunctions of an export directory.
MaxExports == 1
\* Largest number of import descriptors before the null descriptor.
MaxDescriptors == 1
\* Largest number of thunks of a descriptor before the null thunk.
MaxThunks == 2
\* Largest NumberOfSections.
MaxSections == 2
\* Largest SizeOfRawData of a section, in bytes.
MaxRawSize == 2
\* Longest instruction the decoder returns, in bytes.
MaxInsnLen == 2
\* Width, in bits, of the scaled-down ZyanU64 / ZyanUSize arithmetic.
WordBits == 5
\* Width, in bits, of the scaled-down ZyanU32 arithmetic of GetSectionByRVA.
DwordBits == 3
\* Longest module file name of the trimming scan.
MaxNameLen == 4
\* Largest NumberOfSections of the images RVAToFileOffset is applied to.
MaxRvaSections == 2
\* Farthest byte below the name buffer at which an out-of-range scan stops.
MaxBackScan == 2

WordMod == 2 ^ WordBits
DwordMod == 2 ^ DwordBits

(***************************************************************************)
(* Program constants.                                                      *)
(***************************************************************************)
\* sizeof(IMAGE_THUNK_DATA32) and sizeof(IMAGE_THUNK_DATA64)
ThunkSize32 == 4
ThunkSize64 == 8

\* Status codes.  ZYAN_SUCCESS(s) holds of the codes whose error bit is clear.
SuccessStatuses == {"SUCCESS", "TRUE", "FALSE"}
ZYAN_SUCCESS(s) == s \in SuccessStatuses

Min(a, b) == IF a < b THEN a ELSE b

(***************************************************************************)
(* Symbols and the sorted vector.                                          *)
(***************************************************************************)
\* Value of a string field that has never been assigned.
Uninit == "<uninitialized>"

CompareSymbol(left, right) ==
    IF left.address < right.address THEN -1
    ELSE IF left.address > right.address THEN 1
    ELSE 0

\* The loop of ZyanVectorBinarySearch over indices l..h (0-based).
RECURSIVE BinarySearchLoop(_, _, _, _, _)
BinarySearchLoop(vector, key, l, h, st) ==
    IF l > h THEN [status |-> st, found_index |-> l]
    ELSE LET mid == l + ((h - l) \div 2)
             cmp == CompareSymbol(vector[mid + 1], key)
         IN  IF cmp < 0
             THEN BinarySearchLoop(vector, key, mid + 1, h, st)
             ELSE BinarySearchLoop(vector, key, l, mid - 1,
                                   IF cmp = 0 THEN "TRUE" ELSE st)

ZyanVectorBinarySearch(vector, key) ==
    BinarySearchLoop(vector, key, 0, Len(vector) - 1, "FALSE")

ZyanVectorInsert(vector, index, elem) ==
    SubSeq(vector, 1, index) \o <<elem>> \o SubSeq(vector, index + 1, Len(vector))

ZyanVectorPush(vector, elem) == Append(vector, elem)

IsSorted(vector) ==
    \A k \in 1..(Len(vector) - 1) : vector[k].address <= vector[k + 1].address

(***************************************************************************)
(* Inputs read from the image, drawn from small sets.                      *)
(***************************************************************************)
Machines == {"I386", "IA64", "AMD64", "OTHER"}
Magics == {"HDR32", "HDR64", "OTHER"}
\* OptionalHeader.ImageBase: zero, and a base near the top of the word.
ImageBases == {0, WordMod - 2}
\* AddressOfEntryPoint and the entries of AddressOfFunctions.
SymbolAddrs == {0, 2, 4}
\* FirstThunk of an import descriptor.
FirstThunks == {0, 2}
\* Module file names of the export directory and of the import descriptors:
\* one with an extension and one without a '.'.
ModuleNames == {<<"k", ".", "d">>, <<"k">>}
\* Virtual addresses of sections.
SectionVAs == {0, 1}
\* RVAs of the address operands the formatter asks the hook to print.
OperandRVAs == {0, 2}
\* The instruction has no address operand.
NoOperand == -1
\* Every name over {'k', '.'} of at most MaxNameLen characters.
AllNames == UNION {[1..n -> {"k", "."}] : n \in 0..MaxNameLen}

VARIABLES
    pc,            \* position of the program
    scope,         \* which part of the program draws its inputs from the wide sets
    asserts,       \* ZYAN_ASSERT is compiled in: "on", "off", or "unknown"
                   \* while no assertion has failed yet
    Magic,         \* OptionalHeader.Magic of the image
    Machine,       \* FileHeader.Machine of the image
    vec,           \* context->symbols: "uninit", "live" or "destroyed"
    destroyed_n,   \* number of ZyanVectorDestroy calls on context->symbols
    symbols,       \* the elements of context->symbols
    image_base,    \* context->image_base
    element,       \* ZydisPEContextInit: the local `element`
    status,        \* ZydisPEContextInit: the local `status`
    found_index,   \* ZydisPEContextInit: the local `found_index`
    exp_i,         \* export loop index i
    exp_n,         \* export_directory->NumberOfFunctions
    desc_n,        \* number of import descriptors walked so far
    thunk_n,       \* number of thunks of the current descriptor walked so far
    scan_i,        \* index i of the module-name scan
    scan_ret,      \* where the module-name scan continues
    oob_read,      \* the module-name scan has read outside its buffer
    inserted,      \* addresses used as the key of an inserted symbol
    last_insert,   \* the most recent insertion: its kind, or "none"
    fatal_taken,   \* ZydisPEContextInit went through FatalError
    directories,   \* DataDirectory[EXPORT], [IMPORT] .VirtualAddress as read:
                   \* "unread", "zero" or "nonzero"
    ctx_status,    \* return value of ZydisPEContextInit, "none" before it returns
    sections,      \* per section header: Characteristics has IMAGE_SCN_CNT_CODE
    sec_i,         \* DisassembleMappedPEFile: the section loop index i
    section_header,\* index into the section table of the pointer section_header
    buffer_size,   \* SizeOfRawData of the section being decoded
    read_offset_base, \* image_base + VirtualAddress of the section being decoded
    read_offset,   \* read offset into the section being decoded
    iter,          \* what the latest iteration of the decode loop did, or NoIter
    decoded,       \* table indices of the sections decoded to the end, in order
    wrote_stdout,  \* something has been written to standard output
    dis_status,    \* return value of DisassembleMappedPEFile, "none" before
    e_magic_ok,    \* dos_header->e_magic = IMAGE_DOS_SIGNATURE
    signature_ok,  \* nt_headers->Signature = IMAGE_NT_SIGNATURE
    file_open,     \* main: `file` is open
    buffer_alloc,  \* main: `buffer` is allocated
    main_status,   \* main: the local `status`
    exit_status,   \* value main returned, "none" while it runs
    exit_cond,     \* the condition on which main returned, "none" while it runs
    section_table, \* GetSectionByRVA: the section headers of the image
    FileAlignment, \* OptionalHeader.FileAlignment
    rva,           \* the argument of the latest RVAToFileOffset call, or -1
    file_offset    \* what that call returned, as an offset from `base`

rvaVars == <<section_table, FileAlignment, rva, file_offset>>
fixedVars == <<scope, Magic, Machine, e_magic_ok, signature_ok, rvaVars>>
hdrVars == <<asserts, fixedVars>>
vecVars == <<vec, destroyed_n, symbols, image_base>>
scanVars == <<scan_i, scan_ret, oob_read>>
loopVars == <<exp_i, exp_n, desc_n, thunk_n>>
ghostVars == <<inserted, last_insert, fatal_taken, directories>>
ctxVars == <<vecVars, element, status, found_index, loopVars, scanVars, ghostVars,
             ctx_status>>

secVars == <<sec_i, section_header, buffer_size, read_offset_base, read_offset>>
disVars == <<sections, secVars, iter, decoded, wrote_stdout, dis_status>>
mainVars == <<file_open, buffer_alloc, main_status, exit_status, exit_cond>>

vars == <<pc, hdrVars, ctxVars, disVars, mainVars>>

(***************************************************************************)
(* The sets the inputs are drawn from.  ZydisPEContextInit reads the wide  *)
(* sets under SpecCtx and DisassembleMappedPEFile under SpecDis; elsewhere *)
(* they read the narrow ones, which keep every case of the control flow.   *)
(***************************************************************************)
WideCtx == scope = "context"
WideDis == scope = "driver"

ExportLimit == IF WideCtx THEN MaxExports ELSE 1
DescriptorLimit == IF WideCtx THEN MaxDescriptors ELSE 1
ThunkLimit == IF WideCtx THEN MaxThunks ELSE 2
EntryPoints == IF WideCtx THEN SymbolAddrs ELSE {2, 4}
ExportAddrs == IF WideCtx THEN SymbolAddrs ELSE {0}
ThunkAddrs == IF WideCtx THEN FirstThunks ELSE {0}
ImportNames == IF WideCtx THEN ModuleNames ELSE {<<"k", ".", "d">>}
ExportNames == IF WideCtx THEN ModuleNames ELSE {<<"k", ".", "d">>}
Bases == IF WideCtx THEN ImageBases ELSE {WordMod - 2}

SectionLimit == IF WideDis THEN MaxSections ELSE 2
RawSizes == IF WideDis THEN 0..MaxRawSize ELSE {0, 2}
InsnLimit == IF WideDis THEN MaxInsnLen ELSE 2
VirtualAddrs == IF WideDis THEN SectionVAs ELSE {0}
Operands == IF WideDis THEN {NoOperand} \cup OperandRVAs ELSE {NoOperand, 2}

ThunkWidth == IF Magic = "HDR32" THEN ThunkSize32 ELSE ThunkSize64

\* ZydisStringInit of a non-null text: buffer, and length = strlen(text).
ZydisStringInit(text) == [buffer |-> text, length |-> Len(text)]

(***************************************************************************)
(* GetSectionByRVA and RVAToFileOffset, in ZyanU32 arithmetic.             *)
(***************************************************************************)
RECURSIVE BitAnd(_, _, _)
\* x & y over the low `bits` bits.
BitAnd(x, y, bits) ==
    IF bits = 0 THEN 0
    ELSE (IF x % 2 = 1 /\ y % 2 = 1 THEN 1 ELSE 0)
         + 2 * BitAnd(x \div 2, y \div 2, bits - 1)

\* ~x of a ZyanU32.
BitNot32(x) == (DwordMod - 1) - x

\* ZYAN_ALIGN_UP(x, align) == ((x + align - 1) & ~(align - 1)) of ZyanU32 values.
ZYAN_ALIGN_UP(x, align) ==
    BitAnd((x + align - 1) % DwordMod, BitNot32((align - 1) % DwordMod), DwordBits)

\* Lines 423-428: the size of a section used for the containment test.
SectionSize(section) ==
    LET raw == section.SizeOfRawData
        size == IF section.VirtualSize > 0 THEN Min(section.VirtualSize, raw) ELSE raw
    IN  ZYAN_ALIGN_UP(size, FileAlignment)

\* Line 430: the containment test; VirtualAddress + size is a ZyanU32 sum.
SectionContains(section, a) ==
    /\ a >= section.VirtualAddress
    /\ a < (section.VirtualAddress + SectionSize(section)) % DwordMod

\* The value of a null pointer or of "no section".
Null == -1

\* A scan that keeps the last section containing `a` instead of the first.
GetSectionByRVA_LastMatch(a) ==
    LET hits == {i \in 1..Len(section_table) : SectionContains(section_table[i], a)}
    IN  IF hits = {} THEN Null
        ELSE CHOOSE i \in hits : \A j \in hits : j <= i

\* Lines 410-437: the index (from 1) of the first section containing `a`,
\* or Null.
GetSectionByRVA(a) ==
    LET hits == {i \in 1..Len(section_table) : SectionContains(section_table[i], a)}
    IN  IF hits = {} THEN Null
        ELSE CHOOSE i \in hits : \A j \in hits : i <= j

\* Lines 447-459: the offset from `base` of the byte at `a`, or Null.
RVAToFileOffset(a) ==
    LET i == GetSectionByRVA(a)
    IN  IF i = Null THEN Null
        ELSE section_table[i].PointerToRawData + (a - section_table[i].VirtualAddress)

(***************************************************************************)
(* ZydisPEContextInit                                                      *)
(***************************************************************************)
\* Lines 478-497 (628-632): ZyanVectorInit, then the switch on
\* OptionalHeader.Magic, which sets context->image_base.
CtxEnter ==
    /\ pc = "ctx_enter"
    /\ \/ /\ ctx_status' = "NOT_ENOUGH_MEMORY"   \* ZYAN_CHECK(ZyanVectorInit) returns
          /\ pc' = "ctx_returned"
          /\ UNCHANGED <<vecVars, status>>
       \/ /\ vec' = "live"
          /\ symbols' = <<>>
          /\ status' = "SUCCESS"
          /\ \E b \in Bases : image_base' = b
          /\ pc' = "exports"
          /\ UNCHANGED <<destroyed_n, ctx_status>>
    /\ UNCHANGED <<hdrVars, disVars, mainVars, element, found_index, loopVars, scanVars, ghostVars>>

\* Lines 501-513 (636-648): the export directory and its module name.  The
\* failure of this ZydisStringInit is not stored in `status`.
CtxExportDirectory ==
    /\ pc = "exports"
    /\ \/ /\ pc' = "imports"              \* DataDirectory[EXPORT].VirtualAddress = 0
          /\ directories' = [directories EXCEPT !.export = "zero"]
          /\ UNCHANGED <<element, scan_i, scan_ret>>
       \/ /\ pc' = "fatal"                \* ZydisStringInit(NULL) fails
          /\ directories' = [directories EXCEPT !.export = "nonzero"]
          /\ UNCHANGED <<element, scan_i, scan_ret>>
       \/ \E name \in ExportNames :
            /\ element' = [element EXCEPT !.module_name = ZydisStringInit(name)]
            /\ directories' = [directories EXCEPT !.export = "nonzero"]
            /\ scan_i' = (Len(name) - 1) % WordMod
            /\ scan_ret' = "entry_point"
            /\ pc' = "trim"
    /\ UNCHANGED <<hdrVars, disVars, mainVars, vecVars, status, found_index, loopVars, oob_read,
                   inserted, last_insert, fatal_taken, ctx_status>>

\* Lines 513-520 (575-582, 648-655, 710-717): one iteration of
\*   for (ZyanUSize i = length - 1; i >= 0; --i)
\* The condition i >= 0 holds of every unsigned i.  A read at an index outside
\* the buffer is undefined: the process may fault, or the byte found there may
\* or may not be a '.'.
TrimScan ==
    /\ pc = "trim"
    /\ LET buf == element.module_name.buffer
           inrange == scan_i < Len(buf)
           back == WordMod - scan_i       \* distance below the buffer once wrapped
           found == /\ element' = [element EXCEPT !.module_name.length = scan_i]
                    /\ pc' = scan_ret
                    /\ UNCHANGED scan_i
           next == /\ scan_i' = (scan_i - 1) % WordMod
                   /\ UNCHANGED <<element, pc>>
       IN  IF inrange
           THEN /\ IF buf[scan_i + 1] = "." THEN found ELSE next
                /\ UNCHANGED oob_read
           ELSE /\ oob_read' = TRUE
                /\ \/ /\ pc' = "crashed"
                      /\ UNCHANGED <<element, scan_i>>
                   \/ found
                   \/ /\ back < MaxBackScan
                      /\ next
    /\ UNCHANGED <<hdrVars, disVars, mainVars, vecVars, status, found_index, loopVars, scan_ret,
                   ghostVars, ctx_status>>

\* Lines 522-530 (657-665): the EntryPoint symbol is pushed; the export
\* directory's NumberOfFunctions is read for the loop that follows.
CtxEntryPoint ==
    /\ pc = "entry_point"
    /\ \E entry_point \in EntryPoints :
         LET e == [element EXCEPT !.address = entry_point,
                                  !.symbol_name = "EntryPoint"]
         IN  /\ element' = e
             /\ \/ /\ status' = "NOT_ENOUGH_MEMORY"    \* ZyanVectorPush fails
                   /\ pc' = "fatal"
                   /\ UNCHANGED <<symbols, inserted, last_insert, exp_i, exp_n>>
                \/ /\ status' = "SUCCESS"
                   /\ symbols' = ZyanVectorPush(symbols, e)
                   /\ inserted' = inserted \cup {entry_point}
                   /\ last_insert' = "push"
                   /\ exp_i' = 0
                   /\ \E n \in 0..ExportLimit : exp_n' = n
                   /\ pc' = "export_loop"
    /\ UNCHANGED <<hdrVars, disVars, mainVars, vec, destroyed_n, image_base, found_index, desc_n,
                   thunk_n, scanVars, fatal_taken, directories, ctx_status>>

\* Lines 538-557 (673-692): one iteration of the export loop.
CtxExport ==
    /\ pc = "export_loop"
    /\ exp_i < exp_n
    /\ \E addr \in ExportAddrs :
         \/ /\ element' = [element EXCEPT !.address = addr]
            /\ status' = "INVALID_ARGUMENT"           \* ZydisStringInit(NULL)
            /\ pc' = "fatal"
            /\ UNCHANGED <<symbols, found_index, exp_i, inserted, last_insert>>
         \/ LET e == [element EXCEPT !.address = addr, !.symbol_name = "Export"]
                bs == ZyanVectorBinarySearch(symbols, e)
            IN  /\ element' = e
                /\ found_index' = bs.found_index
                /\ \/ /\ status' = "NOT_ENOUGH_MEMORY"  \* ZyanVectorInsert fails
                      /\ pc' = "fatal"
                      /\ UNCHANGED <<symbols, exp_i, inserted, last_insert>>
                   \/ /\ status' = "SUCCESS"
                      /\ symbols' = ZyanVectorInsert(symbols, bs.found_index, e)
                      /\ inserted' = inserted \cup {addr}
                      /\ last_insert' = "export"
                      /\ exp_i' = exp_i + 1
                      /\ UNCHANGED pc
    /\ UNCHANGED <<hdrVars, disVars, mainVars, vec, destroyed_n, image_base, exp_n, desc_n, thunk_n,
                   scanVars, fatal_taken, directories, ctx_status>>

\* Line 538 (673): the export loop ends.
CtxExportsDone ==
    /\ pc = "export_loop"
    /\ exp_i >= exp_n
    /\ pc' = "imports"
    /\ UNCHANGED <<hdrVars, disVars, mainVars, ctxVars>>

\* Lines 561-567 (696-702): the import directory; without one the function
\* returns ZYAN_STATUS_SUCCESS (line 767).
CtxImportDirectory ==
    /\ pc = "imports"
    /\ \/ /\ ctx_status' = "SUCCESS"
          /\ directories' = [directories EXCEPT !.import = "zero"]
          /\ pc' = "ctx_returned"
          /\ UNCHANGED desc_n
       \/ /\ desc_n' = 0
          /\ directories' = [directories EXCEPT !.import = "nonzero"]
          /\ pc' = "descriptor"
          /\ UNCHANGED ctx_status
    /\ UNCHANGED <<hdrVars, disVars, mainVars, vecVars, element, status, found_index, exp_i, exp_n,
                   thunk_n, scanVars, inserted, last_insert, fatal_taken>>

\* Lines 567-575 (702-710): the next import descriptor and its module name.
CtxDescriptor ==
    /\ pc = "descriptor"
    /\ \/ /\ ctx_status' = "SUCCESS"      \* OriginalFirstThunk = 0: return (line 767)
          /\ pc' = "ctx_returned"
          /\ UNCHANGED <<element, status, scan_i, scan_ret>>
       \/ /\ desc_n < DescriptorLimit
          /\ status' = "INVALID_ARGUMENT"  \* ZydisStringInit(NULL)
          /\ pc' = "fatal"
          /\ UNCHANGED <<element, scan_i, scan_ret, ctx_status>>
       \/ /\ desc_n < DescriptorLimit
          /\ \E name \in ImportNames :
               /\ element' = [element EXCEPT !.module_name = ZydisStringInit(name)]
               /\ scan_i' = (Len(name) - 1) % WordMod
          /\ status' = "SUCCESS"
          /\ scan_ret' = "first_thunk"
          /\ pc' = "trim"
          /\ UNCHANGED ctx_status
    /\ UNCHANGED <<hdrVars, disVars, mainVars, vecVars, found_index, loopVars, oob_read, ghostVars>>

\* Lines 584-596 (719-731): the search for FirstThunk and the assertion that
\* it is absent, which only a debug build evaluates.
CtxFirstThunk ==
    /\ pc = "first_thunk"
    /\ \E first_thunk \in ThunkAddrs :
         LET e == [element EXCEPT !.address = first_thunk]
             bs == ZyanVectorBinarySearch(symbols, e)
         IN  /\ element' = e
             /\ status' = bs.status
             /\ found_index' = bs.found_index
             /\ IF bs.status = "FALSE"
                THEN pc' = "thunk" /\ UNCHANGED asserts
                ELSE \E build \in (IF asserts = "unknown" THEN {"on", "off"}
                                    ELSE {asserts}) :
                       /\ asserts' = build
                       /\ pc' = IF build = "on" THEN "aborted" ELSE "thunk"
    /\ thunk_n' = 0
    /\ UNCHANGED <<fixedVars, disVars, mainVars,
                   vecVars, exp_i, exp_n, desc_n, scanVars, ghostVars, ctx_status>>

\* Lines 598-621 (733-756): one iteration of the thunk loop.  An ordinal
\* import leaves element.symbol_name as it was.
CtxThunk ==
    /\ pc = "thunk"
    /\ thunk_n < ThunkLimit
    /\ \E ordinal \in BOOLEAN :
         LET e == IF ordinal THEN element
                  ELSE [element EXCEPT !.symbol_name = "Import"]
         IN  \/ /\ status' = "NOT_ENOUGH_MEMORY"      \* ZyanVectorInsert fails
                /\ element' = e
                /\ pc' = "fatal"
                /\ UNCHANGED <<symbols, found_index, thunk_n, inserted, last_insert>>
             \/ /\ status' = "SUCCESS"
                /\ symbols' = ZyanVectorInsert(symbols, found_index, e)
                /\ inserted' = inserted \cup {e.address}
                /\ last_insert' = IF ordinal THEN "import by ordinal" ELSE "import by name"
                /\ element' = [e EXCEPT !.address = e.address + ThunkWidth]
                /\ found_index' = found_index + 1
                /\ thunk_n' = thunk_n + 1
                /\ UNCHANGED pc
    /\ UNCHANGED <<hdrVars, disVars, mainVars, vec, destroyed_n, image_base, exp_i, exp_n, desc_n,
                   scanVars, fatal_taken, directories, ctx_status>>

\* Lines 598, 622 (733, 757): the null thunk ends the descriptor.
CtxThunksDone ==
    /\ pc = "thunk"
    /\ desc_n' = desc_n + 1
    /\ pc' = "descriptor"
    /\ UNCHANGED <<hdrVars, disVars, mainVars, vecVars, element, status, found_index, exp_i, exp_n,
                   thunk_n, scanVars, ghostVars, ctx_status>>

\* Lines 769-771: FatalError destroys the vector and returns `status`.
CtxFatalError ==
    /\ pc = "fatal"
    /\ vec' = "destroyed"
    /\ destroyed_n' = destroyed_n + 1
    /\ fatal_taken' = TRUE
    /\ ctx_status' = status
    /\ pc' = "ctx_returned"
    /\ UNCHANGED <<hdrVars, disVars, mainVars, symbols, image_base, element, status, found_index,
                   loopVars, scanVars, inserted, last_insert, directories>>

ContextInitStep ==
    \/ CtxEnter \/ CtxExportDirectory \/ TrimScan \/ CtxEntryPoint \/ CtxExport
    \/ CtxExportsDone \/ CtxImportDirectory \/ CtxDescriptor \/ CtxFirstThunk
    \/ CtxThunk \/ CtxThunksDone \/ CtxFatalError

\* No iteration of the decode loop has run in the current section.
NoIter == [offset |-> -1]

(***************************************************************************)
(* ZydisFormatterPrintAddress                                              *)
(***************************************************************************)
\* Lines 804-811, 907-913: the search for the symbol whose address is
\* `address - image_base`, in 64-bit unsigned arithmetic.
SymbolKey(address) == (address - image_base) % WordMod

\* A lookup that also matches the nearest preceding symbol.
LookupSymbol_NearestPreceding(address) ==
    LET bs == ZyanVectorBinarySearch(symbols, [address |-> SymbolKey(address)])
    IN  IF bs.status = "FALSE" /\ bs.found_index > 0
        THEN [status |-> "TRUE", found_index |-> bs.found_index - 1]
        ELSE bs

LookupSymbol(address) ==
    ZyanVectorBinarySearch(symbols, [address |-> SymbolKey(address)])

\* Lines 798-824: what the hook prints for `address`: the symbol found, or
\* whatever default_print_address prints.
ZydisFormatterPrintAddress(address) ==
    LET bs == LookupSymbol(address)
    IN  IF bs.status = "TRUE"
        THEN [address |-> address, printed |-> "symbol",
              symbol |-> symbols[bs.found_index + 1]]
        ELSE [address |-> address, printed |-> "default"]

(***************************************************************************)
(* DisassembleMappedPEFile                                                 *)
(***************************************************************************)
\* What ZydisDecoderDecodeBuffer returns for a window of `remaining` bytes:
\* end of data for an empty window or an instruction cut off by its end, an
\* instruction that fits, or a failure after some bytes were consumed.
Decodes(remaining) ==
    IF remaining = 0 THEN {[status |-> "NO_MORE_DATA", length |-> 0]}
    ELSE {[status |-> "SUCCESS", length |-> l] : l \in 1..Min(remaining, InsnLimit)}
         \cup {[status |-> "DECODING_ERROR", length |-> l] :
                  l \in 1..Min(remaining, InsnLimit)}
         \cup (IF remaining < InsnLimit
               THEN {[status |-> "NO_MORE_DATA", length |-> 0]} ELSE {})

\* Lines 851-864: the address width of the decoder, by FileHeader.Machine.
AddressWidth == IF Machine = "I386" THEN "WIDTH_32" ELSE "WIDTH_64"

\* Lines 491-497, 628-632: the width of the NT headers and thunks that
\* ZydisPEContextInit parses, by OptionalHeader.Magic.
PointerWidth == IF Magic = "HDR32" THEN "WIDTH_32" ELSE "WIDTH_64"

\* Lines 840-889: decode mode from FileHeader.Machine, decoder and formatter
\* initialisation, and the section table the loop walks.
DisEnter ==
    /\ pc = "dis_enter"
    /\ Machine \in {"I386", "IA64", "AMD64"}
    /\ \/ /\ dis_status' = "INVALID_ARGUMENT"    \* an initialisation fails
          /\ pc' = "dis_returned"
          /\ UNCHANGED <<sections, sec_i, section_header>>
       \/ /\ \E n \in 0..SectionLimit : \E code \in [1..n -> BOOLEAN] :
               sections' = code
          /\ sec_i' = 0
          /\ section_header' = 0
          /\ pc' = "sections"
          /\ UNCHANGED dis_status
    /\ UNCHANGED <<hdrVars, ctxVars, mainVars, buffer_size, read_offset_base,
                   read_offset, iter, decoded, wrote_stdout>>

\* A driver that empties the symbol table when it returns.
DisReturn_TableCleared ==
    /\ pc = "sections"
    /\ sec_i >= Len(sections)
    /\ dis_status' = "SUCCESS"
    /\ symbols' = <<>>
    /\ pc' = "dis_returned"
    /\ UNCHANGED <<hdrVars, vec, destroyed_n, image_base, element, status,
                   found_index, loopVars, scanVars, ghostVars, ctx_status,
                   mainVars, sections, secVars, iter, decoded, wrote_stdout>>

\* Lines 890, 965: the section loop ends and the function returns success.
DisReturn ==
    /\ pc = "sections"
    /\ sec_i >= Len(sections)
    /\ dis_status' = "SUCCESS"
    /\ pc' = "dis_returned"
    /\ UNCHANGED <<hdrVars, ctxVars, mainVars, sections, secVars, iter, decoded,
                   wrote_stdout>>

\* Lines 892-895: `continue` on a section without IMAGE_SCN_CNT_CODE; the
\* pointer section_header is not advanced.
DisSkipSection ==
    /\ pc = "sections"
    /\ sec_i < Len(sections)
    /\ ~sections[section_header + 1]
    /\ sec_i' = sec_i + 1
    /\ UNCHANGED <<pc, hdrVars, ctxVars, mainVars, sections, section_header,
                   buffer_size, read_offset_base, read_offset, iter, decoded,
                   wrote_stdout, dis_status>>

\* Lines 897-901: a code section is entered.
DisEnterSection ==
    /\ pc = "sections"
    /\ sec_i < Len(sections)
    /\ sections[section_header + 1]
    /\ \E size \in RawSizes : buffer_size' = size
    /\ \E va \in VirtualAddrs : read_offset_base' = (image_base + va) % WordMod
    /\ read_offset' = 0
    /\ iter' = NoIter
    /\ pc' = "decode"
    /\ UNCHANGED <<hdrVars, ctxVars, mainVars, sections, sec_i, section_header,
                   decoded, wrote_stdout, dis_status>>

\* Lines 902-903, 962: the decoder reports ZYDIS_STATUS_NO_MORE_DATA; the
\* section is done and section_header advances.
DisEndOfSection ==
    /\ pc = "decode"
    /\ \E d \in Decodes((buffer_size - read_offset) % WordMod) :
         /\ d.status = "NO_MORE_DATA"
         /\ iter.offset = read_offset => iter.decode = d
    /\ decoded' = Append(decoded, section_header)
    /\ section_header' = section_header + 1
    /\ sec_i' = sec_i + 1
    /\ pc' = "sections"
    /\ UNCHANGED <<hdrVars, ctxVars, mainVars, sections, buffer_size,
                   read_offset_base, read_offset, iter, wrote_stdout, dis_status>>

\* Lines 902-960: one iteration of the decode loop.  `status` receives the
\* decoder's result, then the result of ZyanVectorBinarySearch (line 911),
\* and it is that value which line 942 tests.  The same bytes decode the
\* same way: an iteration that did not move read_offset is repeated.
DisIteration ==
    /\ pc = "decode"
    /\ \E d \in Decodes((buffer_size - read_offset) % WordMod) :
         /\ d.status # "NO_MORE_DATA"
         /\ iter.offset = read_offset => iter.decode = d
         /\ LET runtime_address == (read_offset_base + read_offset) % WordMod
                bs == LookupSymbol(runtime_address)
                st == bs.status
                label == IF st = "TRUE"
                         THEN symbols[bs.found_index + 1].symbol_name
                         ELSE "none"
                it == [offset |-> read_offset, decode |-> d,
                       address |-> runtime_address, label |-> label]
            IN  /\ wrote_stdout' = TRUE
                /\ IF ZYAN_SUCCESS(st)
                   THEN /\ read_offset' = read_offset + d.length
                        /\ \E operand \in Operands :
                           \E ok \in BOOLEAN :
                             LET printed ==
                                   IF operand = NoOperand THEN [printed |-> "none"]
                                   ELSE ZydisFormatterPrintAddress(
                                            (image_base + operand) % WordMod)
                             IN  /\ iter' = [it EXCEPT !.offset = read_offset]
                                              @@ [line |-> IF ok THEN "insn" ELSE "none",
                                                  formatted |-> TRUE,
                                                  operand |-> printed]
                                 /\ IF ok
                                    THEN UNCHANGED <<pc, dis_status>>
                                    ELSE /\ dis_status' = "FORMAT_FAILED"
                                         /\ pc' = "dis_returned"
                   ELSE /\ read_offset' = read_offset + 1
                        /\ iter' = it @@ [line |-> "db", formatted |-> FALSE,
                                          operand |-> [printed |-> "none"]]
                        /\ UNCHANGED <<pc, dis_status>>
    /\ UNCHANGED <<hdrVars, ctxVars, mainVars, sections, sec_i, section_header,
                   buffer_size, read_offset_base, decoded>>

\* Lines 911-913 reached with context->symbols already destroyed: the search
\* runs on a released vector, and the process may fault.
DisUseAfterDestroy ==
    /\ pc = "decode"
    /\ vec # "live"
    /\ buffer_size # read_offset
    /\ pc' = "crashed"
    /\ UNCHANGED <<hdrVars, ctxVars, disVars, mainVars>>

DisassembleStep ==
    \/ DisEnter \/ DisReturn \/ DisSkipSection \/ DisEnterSection
    \/ DisEndOfSection \/ DisIteration \/ DisUseAfterDestroy

(***************************************************************************)
(* main                                                                    *)
(***************************************************************************)
\* The value of each `return` of main in front of the call of
\* ZydisPEContextInit, by the condition that takes it.
MainReturns ==
    [bad_argument_count      |-> "INVALID_ARGUMENT",
     open_failure            |-> "BAD_SYSTEMCALL",
     allocation_failure      |-> "NOT_ENOUGH_MEMORY",
     short_read              |-> "BAD_SYSTEMCALL",
     invalid_dos_signature   |-> "INVALID_DOS_SIGNATURE",
     invalid_nt_signature    |-> "INVALID_NT_SIGNATURE",
     unsupported_architecture |-> "UNSUPPORTED_ARCHITECTURE"]

Return(cond) ==
    /\ exit_status' = MainReturns[cond]
    /\ exit_cond' = cond
    /\ pc' = "exited"

Exit(code) ==
    /\ exit_status' = code
    /\ exit_cond' = IF code = "SUCCESS" THEN "success" ELSE "failure"
    /\ pc' = "exited"

\* Lines 977-981: the argument count.
MainArgs ==
    /\ pc = "main"
    /\ \/ Return("bad_argument_count")
       \/ /\ pc' = "fopen"
          /\ UNCHANGED <<exit_status, exit_cond>>
    /\ UNCHANGED <<hdrVars, ctxVars, disVars, file_open, buffer_alloc, main_status>>

\* Lines 984-989: fopen.
MainOpenFile ==
    /\ pc = "fopen"
    /\ \/ /\ Return("open_failure")
          /\ UNCHANGED file_open
       \/ /\ file_open' = TRUE
          /\ pc' = "malloc"
          /\ UNCHANGED <<exit_status, exit_cond>>
    /\ UNCHANGED <<hdrVars, ctxVars, disVars, buffer_alloc, main_status>>

\* Lines 991-999: malloc of the file's size.
MainAllocate ==
    /\ pc = "malloc"
    /\ \/ /\ file_open' = FALSE           \* fclose(file)
          /\ Return("allocation_failure")
          /\ UNCHANGED buffer_alloc
       \/ /\ buffer_alloc' = TRUE
          /\ pc' = "fread"
          /\ UNCHANGED <<file_open, exit_status, exit_cond>>
    /\ UNCHANGED <<hdrVars, ctxVars, disVars, main_status>>

\* Lines 1001-1009: fread of the whole file.
MainRead ==
    /\ pc = "fread"
    /\ \/ /\ buffer_alloc' = FALSE        \* free(buffer)
          /\ file_open' = FALSE           \* fclose(file)
          /\ Return("short_read")
       \/ /\ pc' = "check_dos"
          /\ UNCHANGED <<file_open, buffer_alloc, exit_status, exit_cond>>
    /\ UNCHANGED <<hdrVars, ctxVars, disVars, main_status>>

\* A main that does not look at the DOS signature.
MainCheckDos_Unchecked ==
    /\ pc = "check_dos"
    /\ pc' = "check_nt"
    /\ UNCHANGED <<hdrVars, ctxVars, disVars, mainVars>>

\* Lines 1012-1017: the DOS signature.
MainCheckDos ==
    /\ pc = "check_dos"
    /\ IF ~e_magic_ok
       THEN Return("invalid_dos_signature")
       ELSE /\ pc' = "check_nt"
            /\ UNCHANGED <<exit_status, exit_cond>>
    /\ UNCHANGED <<hdrVars, ctxVars, disVars, file_open, buffer_alloc, main_status>>

\* Lines 1019-1025: the NT signature.
MainCheckNt ==
    /\ pc = "check_nt"
    /\ IF ~signature_ok
       THEN Return("invalid_nt_signature")
       ELSE /\ pc' = "check_machine"
            /\ UNCHANGED <<exit_status, exit_cond>>
    /\ UNCHANGED <<hdrVars, ctxVars, disVars, file_open, buffer_alloc, main_status>>

\* Lines 1027-1036: FileHeader.Machine.
MainCheckMachine ==
    /\ pc = "check_machine"
    /\ IF Machine \notin {"I386", "IA64", "AMD64"}
       THEN Return("unsupported_architecture")
       ELSE /\ pc' = "check_magic"
            /\ UNCHANGED <<exit_status, exit_cond>>
    /\ UNCHANGED <<hdrVars, ctxVars, disVars, file_open, buffer_alloc, main_status>>

\* Lines 1038-1050: OptionalHeader.Magic, then the call of ZydisPEContextInit.
MainCheckMagic ==
    /\ pc = "check_magic"
    /\ IF Magic \notin {"HDR32", "HDR64"}
       THEN Return("unsupported_architecture")
       ELSE /\ pc' = "ctx_enter"
            /\ UNCHANGED <<exit_status, exit_cond>>
    /\ UNCHANGED <<hdrVars, ctxVars, disVars, file_open, buffer_alloc, main_status>>

\* Lines 1050-1054: the status of ZydisPEContextInit decides between `goto
\* Exit` and the call of DisassembleMappedPEFile.
MainAfterInit ==
    /\ pc = "ctx_returned"
    /\ main_status' = ctx_status
    /\ pc' = IF ZYAN_SUCCESS(ctx_status) THEN "dis_enter" ELSE "exit_label"
    /\ UNCHANGED <<hdrVars, ctxVars, disVars, file_open, buffer_alloc, exit_status, exit_cond>>

\* A main that drops the status of a failed DisassembleMappedPEFile.
MainAfterDisassemble_StatusDropped ==
    /\ pc = "dis_returned"
    /\ vec' = "destroyed"
    /\ destroyed_n' = destroyed_n + 1
    /\ main_status' = "SUCCESS"
    /\ pc' = "exit_label"
    /\ UNCHANGED <<hdrVars, symbols, image_base, element, status, found_index,
                   loopVars, scanVars, ghostVars, ctx_status, disVars, file_open,
                   buffer_alloc, exit_status, exit_cond>>

\* Lines 1054-1059 with 781-784: ZydisPEContextFinalize destroys the vector
\* on both branches; after a success `status` becomes its result.
MainAfterDisassemble ==
    /\ pc = "dis_returned"
    /\ vec' = "destroyed"
    /\ destroyed_n' = destroyed_n + 1
    /\ main_status' = IF ZYAN_SUCCESS(dis_status) THEN "SUCCESS" ELSE dis_status
    /\ pc' = "exit_label"
    /\ UNCHANGED <<hdrVars, symbols, image_base, element, status, found_index,
                   loopVars, scanVars, ghostVars, ctx_status, disVars, file_open,
                   buffer_alloc, exit_status, exit_cond>>

\* Lines 1061-1065: the Exit label.
MainExit ==
    /\ pc = "exit_label"
    /\ buffer_alloc' = FALSE              \* free(buffer)
    /\ file_open' = FALSE                 \* fclose(file)
    /\ Exit(main_status)
    /\ UNCHANGED <<hdrVars, ctxVars, disVars, main_status>>

MainStep ==
    \/ MainArgs \/ MainOpenFile \/ MainAllocate \/ MainRead \/ MainCheckDos
    \/ MainCheckNt \/ MainCheckMachine \/ MainCheckMagic \/ MainAfterInit
    \/ MainAfterDisassemble \/ MainExit

\* The local `element` before anything is assigned to it.
ElementInit == [address |-> 0,
                module_name |-> [buffer |-> <<>>, length |-> 0],
                symbol_name |-> Uninit]

CtxInit ==
    /\ vec = "uninit"
    /\ destroyed_n = 0
    /\ symbols = <<>>
    /\ image_base = 0
    /\ element = ElementInit
    /\ status = "none"
    /\ found_index = 0
    /\ exp_i = 0 /\ exp_n = 0 /\ desc_n = 0 /\ thunk_n = 0
    /\ scan_i = 0 /\ scan_ret = "none" /\ oob_read = FALSE
    /\ inserted = {} /\ last_insert = "none" /\ fatal_taken = FALSE
    /\ directories = [export |-> "unread", import |-> "unread"]
    /\ ctx_status = "none"

\* ZydisPEContextInit alone, entered with an image that main has validated.
RvaIdle ==
    /\ section_table = <<>>
    /\ FileAlignment = 1
    /\ rva = -1
    /\ file_offset = Null

DisInit ==
    /\ sections = <<>>
    /\ sec_i = 0 /\ section_header = 0
    /\ buffer_size = 0 /\ read_offset_base = 0 /\ read_offset = 0
    /\ iter = NoIter
    /\ decoded = <<>>
    /\ wrote_stdout = FALSE
    /\ dis_status = "none"

InitCtx ==
    /\ pc = "ctx_enter"
    /\ scope = "context"
    /\ asserts = "unknown"
    /\ Magic \in {"HDR32", "HDR64"}
    /\ Machine \in {"I386", "IA64", "AMD64"}
    /\ e_magic_ok = TRUE /\ signature_ok = TRUE
    /\ file_open = TRUE /\ buffer_alloc = TRUE
    /\ main_status = "none" /\ exit_status = "none" /\ exit_cond = "none"
    /\ CtxInit
    /\ DisInit
    /\ RvaIdle

NextCtx == ContextInitStep

SpecCtx == InitCtx /\ [][NextCtx]_vars

\* ZydisPEContextInit followed by DisassembleMappedPEFile, as main calls them
\* for an image it has validated.
InitDis ==
    /\ pc = "ctx_enter"
    /\ scope = "driver"
    /\ asserts = "unknown"
    /\ \E image \in {<<"HDR32", "I386">>, <<"HDR64", "AMD64">>, <<"HDR64", "IA64">>} :
         Magic = image[1] /\ Machine = image[2]
    /\ e_magic_ok = TRUE /\ signature_ok = TRUE
    /\ file_open = TRUE /\ buffer_alloc = TRUE
    /\ main_status = "none" /\ exit_status = "none" /\ exit_cond = "none"
    /\ CtxInit
    /\ DisInit
    /\ RvaIdle

NextDis == ContextInitStep \/ MainAfterInit \/ DisassembleStep

SpecDis == InitDis /\ [][NextDis]_vars

\* The whole program, from the entry of main.
Init ==
    /\ pc = "main"
    /\ scope = "program"
    /\ asserts = "unknown"
    /\ Magic \in Magics
    /\ Machine \in Machines
    /\ e_magic_ok \in BOOLEAN /\ signature_ok \in BOOLEAN
    /\ file_open = FALSE /\ buffer_alloc = FALSE
    /\ main_status = "none" /\ exit_status = "none" /\ exit_cond = "none"
    /\ CtxInit
    /\ DisInit
    /\ RvaIdle

Next == MainStep \/ ContextInitStep \/ DisassembleStep

Spec == Init /\ [][Next]_vars

\* The module-name scan alone, for every name of AllNames.
InitTrim ==
    /\ pc = "trim"
    /\ scope = "trim"
    /\ asserts = "unknown"
    /\ Magic = "HDR32" /\ Machine = "I386"
    /\ e_magic_ok = TRUE /\ signature_ok = TRUE
    /\ file_open = TRUE /\ buffer_alloc = TRUE
    /\ main_status = "none" /\ exit_status = "none" /\ exit_cond = "none"
    /\ vec = "live" /\ destroyed_n = 0 /\ symbols = <<>> /\ image_base = 0
    /\ \E name \in AllNames :
         /\ element = [ElementInit EXCEPT !.module_name = ZydisStringInit(name)]
         /\ scan_i = (Len(name) - 1) % WordMod
    /\ scan_ret = "trimmed"
    /\ oob_read = FALSE
    /\ status = "SUCCESS" /\ found_index = 0
    /\ exp_i = 0 /\ exp_n = 0 /\ desc_n = 0 /\ thunk_n = 0
    /\ inserted = {} /\ last_insert = "none" /\ fatal_taken = FALSE
    /\ directories = [export |-> "unread", import |-> "unread"]
    /\ ctx_status = "none"
    /\ DisInit
    /\ RvaIdle

NextTrim == TrimScan

SpecTrim == InitTrim /\ [][NextTrim]_vars

\* Section headers of the images RVAToFileOffset is applied to: adjacent
\* sections and one at the top of the address space; VirtualSize zero, below
\* and above SizeOfRawData.
SectionHeaders ==
    [VirtualAddress : {0, 1, DwordMod - 2}, VirtualSize : {0, 1, 3},
     SizeOfRawData : {2}, PointerToRawData : {0, 1}]
FileAlignments == {1, 2, 3}

\* The call of RVAToFileOffset(base, a).
RvaCall ==
    /\ pc = "rva"
    /\ rva = -1
    /\ \E a \in 0..DwordMod :
         /\ rva' = a
         /\ file_offset' = RVAToFileOffset(a)
    /\ UNCHANGED <<pc, asserts, scope, Magic, Machine, e_magic_ok, signature_ok,
                   section_table, FileAlignment, ctxVars, disVars, mainVars>>

\* RVAToFileOffset alone, over the images of SectionHeaders.
InitRva ==
    /\ pc = "rva"
    /\ scope = "rva"
    /\ asserts = "unknown"
    /\ Magic = "HDR32" /\ Machine = "I386"
    /\ e_magic_ok = TRUE /\ signature_ok = TRUE
    /\ file_open = TRUE /\ buffer_alloc = TRUE
    /\ main_status = "none" /\ exit_status = "none" /\ exit_cond = "none"
    /\ CtxInit
    /\ DisInit
    /\ \E n \in 0..MaxRvaSections : section_table \in [1..n -> SectionHeaders]
    /\ FileAlignment \in FileAlignments
    /\ rva = -1
    /\ file_offset = Null

NextRva == RvaCall

SpecRva == InitRva /\ [][NextRva]_vars

(***************************************************************************)
(* Properties.                                                             *)
(***************************************************************************)
\* An iteration of the decode loop has run in the current section.
Iterated == iter # NoIter

\* The symbol table holds an entry whose address is `a`.
HasSymbolAt(a) == \E k \in 1..Len(symbols) : symbols[k].address = a

\* The table indices of the sections flagged as code, in file order.
RECURSIVE CodeSectionsFrom(_)
CodeSectionsFrom(k) ==
    IF k > Len(sections) THEN <<>>
    ELSE (IF sections[k] THEN <<k - 1>> ELSE <<>>) \o CodeSectionsFrom(k + 1)

\* C1: when the decoder returns a status that is neither success nor
\* end-of-buffer at offset o, the driver prints a `db` line for the byte at
\* o, does not call the formatter, and moves the read offset to o + 1,
\* whether or not the symbol lookup at that position matched.
C1_DecodeFailureEmitsDb ==
    (Iterated /\ iter.decode.status = "DECODING_ERROR")
        => /\ iter.line = "db"
           /\ ~iter.formatted
           /\ read_offset = iter.offset + 1

\* C2: when DisassembleMappedPEFile returns success, the sections it has
\* decoded to the end are exactly the sections flagged as code, in file
\* order: a code section after a non-code section is decoded, and a non-code
\* section never is.
C2_EveryCodeSectionDecoded ==
    (pc = "dis_returned" /\ dis_status = "SUCCESS")
        => decoded = CodeSectionsFrom(1)

\* C3: after every insertion of ZydisPEContextInit (the EntryPoint push, each
\* export insert, each import insert) the symbol vector is sorted in
\* non-decreasing address order.
C3_SortedAfterEveryInsertion == IsSorted(symbols)

\* C4: after ZydisPEContextInit has returned success, looking up any address
\* that was the key of an inserted symbol reports a match and yields an
\* entry with that address.
C4_InsertedAddressesAreFound ==
    (pc = "ctx_returned" /\ ZYAN_SUCCESS(ctx_status))
        => \A a \in inserted :
             LET bs == LookupSymbol((image_base + a) % WordMod)
             IN  /\ bs.status = "TRUE"
                 /\ symbols[bs.found_index + 1].address = a

\* C5: the lookup is exact-match only: at a decode position whose address
\* is the address of no table entry no label is printed, an operand address
\* that is the address of no entry is printed by the default printer, and a
\* symbol that is printed is an entry at exactly the looked-up address,
\* never the nearest preceding one.
C5_ExactMatchOnly ==
    Iterated =>
        /\ ~HasSymbolAt(SymbolKey(iter.address)) => iter.label = "none"
        /\ iter.operand.printed # "none" =>
             /\ ~HasSymbolAt(SymbolKey(iter.operand.address))
                    => iter.operand.printed = "default"
             /\ iter.operand.printed = "symbol"
                    => iter.operand.symbol.address = SymbolKey(iter.operand.address)

\* C5 witness: an operand address that matches no entry, although an entry
\* at a lower address exists, has been printed by the default printer, at a
\* decode position that got no label.
C5_Witness ==
    /\ Iterated
    /\ iter.label = "none"
    /\ iter.operand.printed = "default"
    /\ \E k \in 1..Len(symbols) :
         symbols[k].address < SymbolKey(iter.operand.address)
    /\ \E k \in 1..Len(symbols) : symbols[k].address < SymbolKey(iter.address)

ImageSupported == Machine \in {"I386", "IA64", "AMD64"} /\ Magic \in {"HDR32", "HDR64"}
ContextInitInvoked == vec # "uninit" \/ ctx_status # "none" \/ pc = "ctx_enter"
DisassembleInvoked ==
    dis_status # "none" \/ pc \in {"dis_enter", "sections", "decode"}

\* C6: main checks the DOS signature, then the NT signature, then the
\* machine type and the optional-header magic; the first check that fails
\* decides the exit status, and after such a failure ZydisPEContextInit and
\* DisassembleMappedPEFile have not been invoked and nothing has been
\* written to standard output.
C6_ValidationOrder ==
    /\ pc \in {"check_nt", "check_machine", "check_magic"} => e_magic_ok
    /\ pc \in {"check_machine", "check_magic"} => signature_ok
    /\ ContextInitInvoked => (e_magic_ok /\ signature_ok /\ ImageSupported)
    /\ (pc = "exited" /\ ~e_magic_ok /\ buffer_alloc)
           => exit_status = "INVALID_DOS_SIGNATURE"
    /\ (pc = "exited" /\ e_magic_ok /\ ~signature_ok /\ buffer_alloc)
           => exit_status = "INVALID_NT_SIGNATURE"
    /\ (pc = "exited" /\ e_magic_ok /\ signature_ok /\ ~ImageSupported /\ buffer_alloc)
           => exit_status = "UNSUPPORTED_ARCHITECTURE"
    /\ exit_status \in {"INVALID_DOS_SIGNATURE", "INVALID_NT_SIGNATURE",
                        "UNSUPPORTED_ARCHITECTURE"}
           => /\ ~ContextInitInvoked
              /\ ~DisassembleInvoked
              /\ ~wrote_stdout
    /\ exit_status = "INVALID_DOS_SIGNATURE" => ~e_magic_ok
    /\ exit_status = "INVALID_NT_SIGNATURE" => (e_magic_ok /\ ~signature_ok)
    /\ exit_status = "UNSUPPORTED_ARCHITECTURE"
           => (e_magic_ok /\ signature_ok /\ ~ImageSupported)

\* C6 witness: an image with a bad NT signature and an unsupported machine
\* type has been rejected for its NT signature.
C6_Witness ==
    /\ pc = "exited"
    /\ exit_status = "INVALID_NT_SIGNATURE"
    /\ Machine = "OTHER"

\* C7: whenever main has returned, the buffer has been freed and the file
\* closed.
C7_ResourcesReleasedAtExit ==
    pc = "exited" => (~buffer_alloc /\ ~file_open)

\* C8: ZydisPEContextInit never returns a success status after it has taken
\* its FatalError path.
C8_FatalErrorReturnsFailure ==
    fatal_taken => ~ZYAN_SUCCESS(ctx_status)

\* The index of the last '.' of `name` (from 0), or Len(name) without one.
TrimmedLength(name) ==
    LET dots == {i \in 1..Len(name) : name[i] = "."}
    IN  IF dots = {} THEN Len(name)
        ELSE (CHOOSE i \in dots : \A j \in dots : j <= i) - 1

\* C9: the module-name scan ends with the length at the index of the last
\* '.', or unchanged for a name without one, and every index it reads lies
\* inside the name.
C9_TrimStaysInRange ==
    /\ ~oob_read
    /\ pc # "crashed"
    /\ pc = "trimmed" =>
         element.module_name.length = TrimmedLength(element.module_name.buffer)

\* x rounded up to a multiple of a.
RoundUp(x, a) == ((x + a - 1) \div a) * a

\* The effective size of a section: min(VirtualSize, SizeOfRawData) when
\* VirtualSize > 0, else SizeOfRawData, rounded up to FileAlignment.
EffectiveSize(section) ==
    RoundUp(IF section.VirtualSize > 0
            THEN Min(section.VirtualSize, section.SizeOfRawData)
            ELSE section.SizeOfRawData, FileAlignment)

\* The sections whose range [VirtualAddress, VirtualAddress + effective size)
\* contains `a`.
SectionsContaining(a) ==
    {i \in 1..Len(section_table) :
        /\ a >= section_table[i].VirtualAddress
        /\ a < section_table[i].VirtualAddress + EffectiveSize(section_table[i])}

\* RVAToFileOffset returned the offset of `rva` in the first section whose
\* range contains it, and Null when no range contains it.
OffsetMatchesRanges ==
    LET hits == SectionsContaining(rva)
    IN  IF hits = {} THEN file_offset = Null
        ELSE LET i == CHOOSE i \in hits : \A j \in hits : i <= j
             IN  file_offset = section_table[i].PointerToRawData
                                 + (rva - section_table[i].VirtualAddress)

\* FileAlignment is a power of two and the end of every section's range
\* fits in a ZyanU32, as in every valid PE image.
ValidLayout ==
    /\ FileAlignment \in {2 ^ k : k \in 0..(DwordBits - 1)}
    /\ \A i \in 1..Len(section_table) :
         section_table[i].VirtualAddress + EffectiveSize(section_table[i]) < DwordMod

\* C10 as stated: for every image, RVAToFileOffset yields PointerToRawData +
\* (rva - VirtualAddress) of the first section whose range [VirtualAddress,
\* VirtualAddress + effective size) contains rva, and none when no range does.
C10_OffsetMatchesRanges == rva # -1 => OffsetMatchesRanges

\* C10 amended: the same, for images whose FileAlignment is a power of two
\* and whose sections all end below 2^32.
C10_OffsetMatchesRangesOfValidLayout ==
    (rva # -1 /\ ValidLayout) => OffsetMatchesRanges

\* C10 witness: in a valid layout with FileAlignment 2, an rva contained in
\* two sections has been translated.
C10_Witness ==
    /\ rva # -1
    /\ ValidLayout
    /\ FileAlignment = 2
    /\ Cardinality(SectionsContaining(rva)) >= 2
    /\ file_offset # Null

\* The conditions on which main returns, and the status each returns.
ExitConditions == DOMAIN MainReturns \cup {"success"}
StatusFor(cond) == IF cond = "success" THEN "SUCCESS" ELSE MainReturns[cond]

\* C11: the status main returns on one of the conditions bad argument count,
\* file-open failure, allocation failure, short read, invalid DOS signature,
\* invalid NT signature, unsupported architecture and success is returned
\* on no other of them.
C11_ExitStatusesDistinct ==
    (pc = "exited" /\ exit_cond \in ExitConditions)
        => \A other \in ExitConditions \ {exit_cond} : StatusFor(other) # exit_status

\* The number of symbols of the table named `name`.
SymbolsNamed(name) ==
    Cardinality({k \in 1..Len(symbols) : symbols[k].symbol_name = name})

\* C12: a successful ZydisPEContextInit of an image with a nonzero export
\* directory address, NumberOfFunctions = N and no import directory leaves
\* N + 1 symbols in the table, one named EntryPoint and N exports; of an
\* image with a zero export directory address it leaves no EntryPoint symbol.
C12_ExportsLeaveNPlusOneSymbols ==
    (pc = "ctx_returned" /\ ZYAN_SUCCESS(ctx_status)) =>
        /\ (directories.export = "nonzero" /\ directories.import # "nonzero") =>
             /\ vec = "live"
             /\ Len(symbols) = exp_n + 1
             /\ SymbolsNamed("EntryPoint") = 1
             /\ SymbolsNamed("Export") = exp_n
        /\ directories.export = "zero" => SymbolsNamed("EntryPoint") = 0

\* C13: the symbol the import walk inserts for a thunk with the ordinal flag
\* has an empty symbol name, and the one it inserts for a thunk without the
\* flag has the name of the thunk's import-by-name structure; an ordinal
\* import never carries the name of the previous thunk, of an export or of
\* EntryPoint.  (A name no statement has assigned yet is indeterminate and
\* may be empty: it is not held against the property.)
C13_OrdinalImportsHaveEmptyName ==
    (pc = "thunk" /\ thunk_n > 0) =>
        /\ last_insert = "import by ordinal" =>
             symbols[found_index].symbol_name \in {"", Uninit}
        /\ last_insert = "import by name" => symbols[found_index].symbol_name = "Import"

\* The formatter has failed on a successfully decoded instruction.
FormatFailed ==
    /\ Iterated
    /\ iter.decode.status = "SUCCESS"
    /\ iter.formatted
    /\ iter.line = "none"

\* C14: once the formatter has failed on a successfully decoded instruction,
\* DisassembleMappedPEFile has returned the failing status; from then on no
\* instruction is decoded or printed and no section is entered; main
\* finalizes the context and returns that status.
C14_FormatterFailureIsFatal ==
    /\ [](FormatFailed =>
            /\ pc \in {"dis_returned", "exit_label", "exited"}
            /\ dis_status = "FORMAT_FAILED"
            /\ pc \in {"exit_label", "exited"} =>
                 (vec = "destroyed" /\ main_status = "FORMAT_FAILED")
            /\ pc = "exited" => exit_status = "FORMAT_FAILED")
    /\ [][FormatFailed => UNCHANGED <<iter, read_offset, decoded, sec_i,
                                      section_header, dis_status>>]_vars

\* C14 witness: main has returned after a formatter failure that left bytes
\* of the section and a later code section undecoded.
C14_Witness ==
    /\ pc = "exited"
    /\ FormatFailed
    /\ exit_status = "FORMAT_FAILED"
    /\ read_offset < buffer_size
    /\ Len(sections) = 2 /\ section_header = 0 /\ sections[2]

\* The number of symbols of the table at address a.
SymbolsAt(a) == Cardinality({k \in 1..Len(symbols) : symbols[k].address = a})

\* C15: the symbol the import walk has just inserted, for whichever thunk
\* slot of whichever descriptor, is the only symbol of the table at its
\* address: a slot whose address is already present is never inserted.
\* (Stated of the builds that evaluate ZYAN_ASSERT, in which the check of
\* the descriptor's first slot is in force.)
C15_ImportsNeverCollide ==
    (asserts # "off" /\ pc = "thunk" /\ thunk_n > 0)
        => SymbolsAt(symbols[found_index].address) = 1

\* C16: every iteration of the decode loop has moved read_offset forward, by
\* the instruction length after a successful decode and by 1 after a failed
\* one, and read_offset never exceeds SizeOfRawData.
C16_DecodeLoopAdvances ==
    Iterated =>
        /\ read_offset > iter.offset
        /\ read_offset = iter.offset + (IF iter.decode.status = "SUCCESS"
                                        THEN iter.decode.length ELSE 1)
        /\ read_offset <= buffer_size

\* C17: at the decode position `offset` of a section at VirtualAddress va,
\* whatever the image base, a label line is printed if and only if the table
\* holds an entry with address va + offset, and the label is the symbol name
\* of such an entry.
C17_LabelIffEntryAtPosition ==
    Iterated =>
        \A va \in SectionVAs :
            read_offset_base = (image_base + va) % WordMod =>
                /\ iter.label # "none" <=> HasSymbolAt(va + iter.offset)
                /\ iter.label # "none" =>
                     \E k \in 1..Len(symbols) :
                         /\ symbols[k].address = va + iter.offset
                         /\ symbols[k].symbol_name = iter.label

\* The program is inside DisassembleMappedPEFile.
InDisassemble == pc \in {"dis_enter", "sections", "decode"}

\* C18: no step of DisassembleMappedPEFile, the calls of
\* ZydisFormatterPrintAddress included, changes the symbol table, the state
\* of its vector, the image base, or what has been read of the mapped image.
C18_DisassemblyLeavesContextUnchanged ==
    [][InDisassemble =>
         /\ UNCHANGED <<symbols, vec, destroyed_n, image_base>>
         /\ UNCHANGED <<Magic, Machine, e_magic_ok, signature_ok, buffer_alloc>>
         /\ pc # "dis_enter" => UNCHANGED sections]_vars

\* C18 witness: the pass has returned after decoding a section in which the
\* hook printed a symbol of a table of two or more entries.
C18_Witness ==
    /\ pc = "dis_returned"
    /\ decoded # <<>>
    /\ Len(symbols) >= 2
    /\ Iterated
    /\ iter.operand.printed = "symbol"

\* C19: an image that main has accepted and ZydisPEContextInit has parsed
\* is disassembled in the address width of the pointer width it was parsed
\* with.
C19_WidthsAgree ==
    (pc \in {"sections", "decode"}) => AddressWidth = PointerWidth

\* C20: the vector that ZydisPEContextInit initialized is destroyed at most
\* once, and exactly once when main has returned; no iteration of the decode
\* loop has searched it after it was destroyed.
C20_VectorDestroyedExactlyOnce ==
    /\ destroyed_n <= 1
    /\ (pc = "exited" /\ vec # "uninit") => destroyed_n = 1
    /\ (pc \in {"sections", "decode", "dis_returned"} /\ Iterated) => vec = "live"

====
